---- MODULE Spec2Model ----
(***************************************************************************)
(* A model of src/Calculator.py: the expression evaluator                  *)
(* (Calculator.evaluate_expression, Calculator.evaluate_simple_expression) *)
(* and the part of the input handling that feeds it.                       *)
(*                                                                         *)
(* Text.  A Python str is a sequence of one-character strings.  The four   *)
(* non-ASCII characters of the calculator are written with the letters     *)
(* "R" (the root sign), "X" (the multiplication sign), "D" (the division   *)
(* sign) and "P" (pi); no other upper-case letter but the "N" of "None"    *)
(* occurs in a buffer.                                                     *)
(*                                                                         *)
(* Numbers.  A Python float is an exact rational in sign-magnitude form,   *)
(* [neg, n, d] with n >= 0, d > 0 and gcd(n, d) = 1; [neg |-> TRUE,        *)
(* n |-> 0] is the float -0.0.  None is the record with d = 0.  Binary     *)
(* rounding is not modelled: the inputs the specifications draw keep every *)
(* value a short terminating decimal (or a root, see Sqrt), which a double *)
(* carries through str() and float() unchanged.                            *)
(***************************************************************************)
EXTENDS Integers, Sequences, FiniteSets, TLC

\* ------------------------------------------------------------ characters

RootCh == "R"
TimesCh == "X"
DivCh == "D"
PiCh == "P"

Digits == {"0", "1", "2", "3", "4", "5", "6", "7", "8", "9"}

IsDigit(c) == c \in Digits

DigitVal(c) ==
  CASE c = "0" -> 0 [] c = "1" -> 1 [] c = "2" -> 2 [] c = "3" -> 3
    [] c = "4" -> 4 [] c = "5" -> 5 [] c = "6" -> 6 [] c = "7" -> 7
    [] c = "8" -> 8 [] c = "9" -> 9

DigitCh(k) ==
  CASE k = 0 -> "0" [] k = 1 -> "1" [] k = 2 -> "2" [] k = 3 -> "3"
    [] k = 4 -> "4" [] k = 5 -> "5" [] k = 6 -> "6" [] k = 7 -> "7"
    [] k = 8 -> "8" [] k = 9 -> "9"

\* Python's \s, as far as the buttons and the keyboard can produce it.
IsSpace(c) == c = " "

\* ------------------------------------------------------------ str helpers

\* str.count(ch) for a one-character ch.
Count(ch, s) == Cardinality({i \in 1..Len(s) : s[i] = ch})

\* "ch in s" for a one-character ch.
Has(ch, s) == \E i \in 1..Len(s) : s[i] = ch

\* "sub in s" for a str sub.
HasSub(sub, s) ==
  \E i \in 1..(Len(s) - Len(sub) + 1) : SubSeq(s, i, i + Len(sub) - 1) = sub

\* s[i:j] with 1-based i and exclusive j.
Slice(s, i, j) == SubSeq(s, i, j - 1)

\* The character ch, k times.
Repeat(ch, k) == [i \in 1..k |-> ch]

\* The least element of a non-empty set of integers.
Min(S) == CHOOSE m \in S : \A k \in S : m <= k

\* The character of s at index i, "" outside s.
At(s, i) == IF 1 <= i /\ i <= Len(s) THEN s[i] ELSE ""

\* The least element of S, or 0 for an empty S.
First(S) == IF S = {} THEN 0 ELSE Min(S)

\* The index of the first ch in s at or after i, or 0.
IndexFrom(ch, s, i) == First({j \in i..Len(s) : s[j] = ch})

\* The index of the first character of s at or after i that is in set, or 0.
IndexOfAny(set, s, i) == First({j \in i..Len(s) : s[j] \in set})

\* The index of the first character of s at or after i that is not in set, or
\* the index after s.
IndexOfNone(set, s, i) ==
  IF \E j \in i..Len(s) : s[j] \notin set THEN Min({j \in i..Len(s) : s[j] \notin set})
  ELSE IF i > Len(s) THEN i ELSE Len(s) + 1

\* ------------------------------------------------------------ floats

Abs(x) == IF x < 0 THEN -x ELSE x

RECURSIVE Gcd(_, _)
Gcd(a, b) == IF b = 0 THEN a ELSE Gcd(b, a % b)

RECURSIVE Pow10(_)
Pow10(k) == IF k <= 0 THEN 1 ELSE 10 * Pow10(k - 1)

\* The float of sign neg and magnitude n/d.
Flt(neg, n, d) ==
  LET g == Gcd(n, d) IN [neg |-> neg, n |-> n \div g, d |-> d \div g]

\* The float of the signed fraction m/d, a zero getting the sign zneg.
Signed(m, d, zneg) ==
  IF m = 0 THEN [neg |-> zneg, n |-> 0, d |-> 1] ELSE Flt(m < 0, Abs(m), d)

\* The float of an integer.
FInt(k) == Signed(k, 1, FALSE)

\* Python's None.
None == [neg |-> FALSE, n |-> 0, d |-> 0]

IsNone(v) == v.d = 0

SNum(v) == IF v.neg THEN -v.n ELSE v.n

FIsZero(v) == v.n = 0

\* v < 0 (false of -0.0).
FIsNeg(v) == v.neg /\ v.n > 0

FAbs(v) == [v EXCEPT !.neg = FALSE]

\* a + b; a zero sum is -0.0 only when both operands are -0.0.
FAdd(a, b) == Signed(SNum(a) * b.d + SNum(b) * a.d, a.d * b.d, a.neg /\ b.neg)

\* a - b.
FSub(a, b) == FAdd(a, [b EXCEPT !.neg = ~b.neg])

\* a * b.
FMul(a, b) == Flt(a.neg # b.neg, a.n * b.n, a.d * b.d)

\* a / b for b # 0.
FDiv(a, b) == Flt(a.neg # b.neg, a.n * b.d, a.d * b.n)

\* float.is_integer()
FIsInteger(v) == v.d = 1

\* The largest r with r * r <= m, searched between lo and hi.
RECURSIVE ISqrtIn(_, _, _)
ISqrtIn(m, lo, hi) ==
  IF lo >= hi THEN lo
  ELSE LET mid == (lo + hi + 1) \div 2
       IN IF mid * mid <= m THEN ISqrtIn(m, mid, hi) ELSE ISqrtIn(m, lo, mid - 1)

ISqrt(m) == ISqrtIn(m, 0, IF m < 46340 THEN m ELSE 46340)

IsSquare(m) == ISqrt(m) * ISqrt(m) = m

\* Decimal places kept of a root that is not a rational number.
SqrtDigits == 2

\* math.sqrt(v) for v >= 0 or v = -0.0 (which it returns unchanged): the exact
\* root of a square of a rational, and otherwise the root cut to SqrtDigits
\* decimal places.
Sqrt(v) ==
  IF FIsZero(v) THEN v
  ELSE IF IsSquare(v.n) /\ IsSquare(v.d) THEN Flt(FALSE, ISqrt(v.n), ISqrt(v.d))
  ELSE LET s == Pow10(SqrtDigits)
       IN Flt(FALSE, ISqrt((v.n * s * s) \div v.d), s)

\* b to the k, by squaring.
RECURSIVE IntPow(_, _)
IntPow(b, k) ==
  IF k = 0 THEN 1
  ELSE LET h == IntPow(b, k \div 2)
       IN IF k % 2 = 0 THEN h * h ELSE h * h * b

\* a ** b for floats a >= 0 and b >= 0, which is all the exponent pattern can
\* capture: the exact power for a whole b, the root of it for a b of halves.
FPow(a, b) ==
  LET p == Flt(FALSE, IntPow(a.n, b.n), IntPow(a.d, b.n))
  IN CASE b.d = 1 -> p
       [] b.d = 2 -> Sqrt(p)

\* ------------------------------------------------------------ float(), str()

RECURSIVE NatOf(_)
NatOf(s) ==
  IF s = <<>> THEN 0 ELSE 10 * NatOf(SubSeq(s, 1, Len(s) - 1)) + DigitVal(s[Len(s)])

\* s without its leading "0"s.
StripLeadingZeros(s) == SubSeq(s, IndexOfNone({"0"}, s, 1), Len(s))

\* float(s) for a str s of the shape digits, digits. or digits.digits
float(s) ==
  LET dot == IndexFrom(".", s, 1)
      ip == StripLeadingZeros(IF dot = 0 THEN s ELSE Slice(s, 1, dot))
      fp == IF dot = 0 THEN <<>> ELSE Slice(s, dot + 1, Len(s) + 1)
  IN Flt(FALSE, NatOf(ip) * Pow10(Len(fp)) + NatOf(fp), Pow10(Len(fp)))

\* The decimal digits of k >= 0 ("0" for 0).
RECURSIVE NatStr(_)
NatStr(k) == IF k < 10 THEN <<DigitCh(k)>> ELSE NatStr(k \div 10) \o <<DigitCh(k % 10)>>

\* The digits of r/d < 1 after the decimal point, at most k of them, ending
\* where the division ends: [digs, rem].
RECURSIVE FracDigits(_, _, _)
FracDigits(r, d, k) ==
  IF r = 0 \/ k = 0 THEN [digs |-> <<>>, rem |-> r]
  ELSE LET rest == FracDigits((r * 10) % d, d, k - 1)
       IN [digs |-> <<DigitCh((r * 10) \div d)>> \o rest.digs, rem |-> rest.rem]

\* Exactly k digits of r/d < 1 after the decimal point: [digs, rem].
RECURSIVE FixedDigits(_, _, _)
FixedDigits(r, d, k) ==
  IF k = 0 THEN [digs |-> <<>>, rem |-> r]
  ELSE LET rest == FixedDigits((r * 10) % d, d, k - 1)
       IN [digs |-> <<DigitCh((r * 10) \div d)>> \o rest.digs, rem |-> rest.rem]

\* The number of leading "0"s of s.
LeadingZeros(s) == IndexOfNone({"0"}, s, 1) - 1

\* s without its trailing ch's: s.rstrip(ch).
RECURSIVE rstrip(_, _)
rstrip(s, ch) ==
  IF s # <<>> /\ s[Len(s)] = ch THEN rstrip(SubSeq(s, 1, Len(s) - 1), ch) ELSE s

\* An exponent as Python prints it: a sign and at least two digits.
ExpStr(e) ==
  <<"e", IF e < 0 THEN "-" ELSE "+">>
    \o (IF Abs(e) < 10 THEN <<"0">> ELSE <<>>) \o NatStr(Abs(e))

\* str(v) of a float v (repr): the shortest decimal that reads back as v, which
\* for the decimals of this model is the decimal itself (at most 17 significant
\* digits); in exponent form below 1e-4 (and from 1e16 on, beyond the integers
\* of this model), with ".0" added to a whole number.
str(v) ==
  IF IsNone(v) THEN <<"N", "o", "n", "e">>
  ELSE
    LET sign == IF v.neg THEN <<"-">> ELSE <<>>
        ip == v.n \div v.d
        fr == FracDigits(v.n % v.d, v.d, 17).digs
        lz == LeadingZeros(fr)
        sig == SubSeq(fr, lz + 1, Len(fr))
    IN IF ip = 0 /\ v.n # 0 /\ lz >= 4
       THEN sign \o <<sig[1]>>
              \o (IF Len(sig) > 1 THEN <<".">> \o Tail(sig) ELSE <<>>)
              \o ExpStr(-(lz + 1))
       ELSE sign \o NatStr(ip) \o <<".">> \o (IF fr = <<>> THEN <<"0">> ELSE fr)

\* ------------------------------------------------------------ exceptions

\* What a call ends with: no exception, an exception of a Python type with its
\* message, or (type "Hang") a loop that never ends.
NoExc == [type |-> "", msg |-> ""]
TypeError == [type |-> "TypeError", msg |-> "unsupported operand type"]
ZeroDivisionError == [type |-> "ZeroDivisionError", msg |-> "float division by zero"]
MathDomainError == [type |-> "ValueError", msg |-> "math domain error"]
Hang == [type |-> "Hang", msg |-> ""]

\* ------------------------------------------------------------ patterns

\* The index after the digits of s that start at i.
DigitsEnd(s, i) == IndexOfNone(Digits, s, i)

\* The index after the spaces of s that start at i.
SpacesEnd(s, i) == IndexOfNone({" "}, s, i)

\* \d+\.?\d* matched at i: the index after the match, 0 for no match.
NumberEnd(s, i) ==
  IF ~IsDigit(At(s, i)) THEN 0
  ELSE LET j == DigitsEnd(s, i)
       IN DigitsEnd(s, IF At(s, j) = "." THEN j + 1 ELSE j)

\* \d+(?:\.\d+)? matched at i: the index after the match, 0 for no match.
DecimalEnd(s, i) ==
  IF ~IsDigit(At(s, i)) THEN 0
  ELSE LET j == DigitsEnd(s, i)
       IN IF At(s, j) = "." /\ IsDigit(At(s, j + 1)) THEN DigitsEnd(s, j + 1) ELSE j

\* re.search(r'\d+\.\d+\.', s) finds a match.
MalformedNumber(s) ==
  \E i \in 1..Len(s) :
    /\ IsDigit(s[i])
    /\ LET j == DigitsEnd(s, i)
       IN /\ At(s, j) = "."
          /\ IsDigit(At(s, j + 1))
          /\ At(s, DigitsEnd(s, j + 1)) = "."

\* str.replace(ch, rep) for a one-character ch.
RECURSIVE replace(_, _, _)
replace(s, ch, rep) ==
  LET p == IndexFrom(ch, s, 1)
  IN IF p = 0 THEN s
     ELSE SubSeq(s, 1, p - 1) \o rep \o replace(SubSeq(s, p + 1, Len(s)), ch, rep)

\* str(math.pi)
PiStr ==
  <<"3", ".", "1", "4", "1", "5", "9", "2", "6", "5", "3", "5", "8", "9", "7", "9", "3">>

MathSqrtOpen == <<"m", "a", "t", "h", ".", "s", "q", "r", "t", "(">>

\* re.sub(r'R(\d+(?:\.\d+)?)', r'math.sqrt(\1)', s), from index i on;
\* SqrtCallFrom: with p the index of the leftmost match at or after i, 0 for
\* none.
RECURSIVE SqrtCallSub(_, _)
SqrtCallFrom(s, i, p) ==
  IF p = 0 THEN Slice(s, i, Len(s) + 1)
  ELSE Slice(s, i, p) \o MathSqrtOpen \o Slice(s, p + 1, DecimalEnd(s, p + 1)) \o <<")">>
         \o SqrtCallSub(s, DecimalEnd(s, p + 1))

SqrtCallSub(s, i) ==
  SqrtCallFrom(s, i, First({j \in i..Len(s) : s[j] = RootCh /\ DecimalEnd(s, j + 1) # 0}))

\* The rest of the exponent pattern after a first number that ends before e1:
\* \s*\*\*\s*(\d+\.?\d*).
ExponentTail(s, e1) ==
  LET j == SpacesEnd(s, e1)
      k == SpacesEnd(s, j + 2)
  IN IF e1 # 0 /\ At(s, j) = "*" /\ At(s, j + 1) = "*" /\ NumberEnd(s, k) # 0
     THEN [e1 |-> e1, b2 |-> k, end |-> NumberEnd(s, k)]
     ELSE [e1 |-> 0, b2 |-> 0, end |-> 0]

\* (\d+\.?\d*)\s*\*\*\s*(\d+\.?\d*) matched at i: where the two numbers end and
\* the second begins, end = 0 for no match.  The first number is followed by a
\* space or "*" in a match, so only its longest form can match.
ExponentMatch(s, i) == ExponentTail(s, NumberEnd(s, i))

\* One pass of the exponent loop over s, from index i on:
\* re.sub(pattern, lambda m: str(float(m.group(1)) ** float(m.group(2))), s);
\* ExponentAt: with m the leftmost match at or after i, which starts at p.
RECURSIVE ExponentSub(_, _)
ExponentAt(s, i, p, m) ==
  Slice(s, i, p)
    \o str(FPow(float(Slice(s, p, m.e1)), float(Slice(s, m.b2, m.end))))
    \o ExponentSub(s, m.end)

ExponentFrom(s, i, p) ==
  IF p = 0 THEN Slice(s, i, Len(s) + 1) ELSE ExponentAt(s, i, p, ExponentMatch(s, p))

ExponentSub(s, i) ==
  ExponentFrom(s, i, First({j \in i..Len(s) : ExponentMatch(s, j).end # 0}))

\* while '**' in expr: expr = re.sub(...).  The body is a function of expr, so
\* a pass that leaves expr as it was (next = expr) repeats for ever:
\* [hang, expr].
RECURSIVE ExponentLoop(_)
ExponentNext(expr, next) ==
  IF next = expr THEN [hang |-> TRUE, expr |-> expr] ELSE ExponentLoop(next)

ExponentLoop(expr) ==
  IF ~HasSub(<<"*", "*">>, expr) THEN [hang |-> FALSE, expr |-> expr]
  ELSE ExponentNext(expr, ExponentSub(expr, 1))

OperatorChars == {"+", "-", TimesCh, DivCh, "*", "/"}

\* re.findall(r'(\d+\.?\d*%?|[\+\-X D\*\/])', s), from index i on; TokenAt: with
\* p the index where the next token starts (0 for none) and e the end of the
\* number there (0 for an operator).
RECURSIVE findall(_, _)
TokenAt(s, p, e) ==
  IF e = 0 THEN <<(<<s[p]>>)>> \o findall(s, p + 1)
  ELSE IF At(s, e) = "%" THEN <<Slice(s, p, e + 1)>> \o findall(s, e + 1)
  ELSE <<Slice(s, p, e)>> \o findall(s, e)

TokensFrom(s, p) == IF p = 0 THEN <<>> ELSE TokenAt(s, p, NumberEnd(s, p))

findall(s, i) == TokensFrom(s, IndexOfAny(Digits \cup OperatorChars, s, i))

\* ------------------------------------------------------------ the linear evaluator

\* "token in '+-XD*/'": token is a substring of the operator characters.
IsOperatorToken(token) == HasSub(token, <<"+", "-", TimesCh, DivCh, "*", "/">>)

\* CombinePercent taking the percentage after + and - as the plain fraction
\* rather than as that share of current_value.
CombinePercentAsFraction(current_value, last_operator, num) ==
  IF last_operator \notin {"+", "-", TimesCh, "*", DivCh, "/"}
  THEN [exc |-> NoExc, val |-> num]
  ELSE IF IsNone(current_value) THEN [exc |-> TypeError, val |-> None]
  ELSE IF last_operator = "+" THEN [exc |-> NoExc, val |-> FAdd(current_value, num)]
  ELSE IF last_operator = "-" THEN [exc |-> NoExc, val |-> FSub(current_value, num)]
  ELSE IF last_operator \in {TimesCh, "*"}
  THEN [exc |-> NoExc, val |-> FMul(current_value, num)]
  ELSE IF FIsZero(num) THEN [exc |-> ZeroDivisionError, val |-> None]
  ELSE [exc |-> NoExc, val |-> FDiv(current_value, num)]

\* Lines 205-215 for the fraction num of a percentage token: current_value
\* and the exception.  last_operator is "" for None.
CombinePercent(current_value, last_operator, num) ==
  IF last_operator \notin {"+", "-", TimesCh, "*", DivCh, "/"}
  THEN [exc |-> NoExc, val |-> num]
  ELSE IF IsNone(current_value) THEN [exc |-> TypeError, val |-> None]
  ELSE IF last_operator = "+"
  THEN [exc |-> NoExc, val |-> FAdd(current_value, FMul(current_value, num))]
  ELSE IF last_operator = "-"
  THEN [exc |-> NoExc, val |-> FSub(current_value, FMul(current_value, num))]
  ELSE IF last_operator \in {TimesCh, "*"}
  THEN [exc |-> NoExc, val |-> FMul(current_value, num)]
  ELSE IF FIsZero(num) THEN [exc |-> ZeroDivisionError, val |-> None]
  ELSE [exc |-> NoExc, val |-> FDiv(current_value, num)]

\* A percentage token (lines 203-215).
ApplyPercent(current_value, last_operator, token) ==
  CombinePercent(current_value, last_operator,
                 FDiv(float(replace(token, "%", <<>>)), FInt(100)))

\* Combine taking a "-" before the first number as its sign.
CombineSigned(current_value, last_operator, num) ==
  IF IsNone(current_value)
  THEN [exc |-> NoExc, val |-> IF last_operator = "-" THEN FSub(FInt(0), num) ELSE num]
  ELSE IF last_operator = "+" THEN [exc |-> NoExc, val |-> FAdd(current_value, num)]
  ELSE IF last_operator = "-" THEN [exc |-> NoExc, val |-> FSub(current_value, num)]
  ELSE IF last_operator \in {TimesCh, "*"}
  THEN [exc |-> NoExc, val |-> FMul(current_value, num)]
  ELSE IF last_operator \in {DivCh, "/"}
  THEN IF FIsZero(num) THEN [exc |-> ZeroDivisionError, val |-> None]
       ELSE [exc |-> NoExc, val |-> FDiv(current_value, num)]
  ELSE [exc |-> NoExc, val |-> current_value]

\* Combine with the operands of - and / the other way round.
CombineReversed(current_value, last_operator, num) ==
  IF IsNone(current_value) THEN [exc |-> NoExc, val |-> num]
  ELSE IF last_operator = "+" THEN [exc |-> NoExc, val |-> FAdd(current_value, num)]
  ELSE IF last_operator = "-" THEN [exc |-> NoExc, val |-> FSub(num, current_value)]
  ELSE IF last_operator \in {TimesCh, "*"}
  THEN [exc |-> NoExc, val |-> FMul(current_value, num)]
  ELSE IF last_operator \in {DivCh, "/"}
  THEN IF FIsZero(current_value) THEN [exc |-> ZeroDivisionError, val |-> None]
       ELSE [exc |-> NoExc, val |-> FDiv(num, current_value)]
  ELSE [exc |-> NoExc, val |-> current_value]

\* Lines 219-229 for the value num of a number token.
Combine(current_value, last_operator, num) ==
  IF IsNone(current_value) THEN [exc |-> NoExc, val |-> num]
  ELSE IF last_operator = "+" THEN [exc |-> NoExc, val |-> FAdd(current_value, num)]
  ELSE IF last_operator = "-" THEN [exc |-> NoExc, val |-> FSub(current_value, num)]
  ELSE IF last_operator \in {TimesCh, "*"}
  THEN [exc |-> NoExc, val |-> FMul(current_value, num)]
  ELSE IF last_operator \in {DivCh, "/"}
  THEN IF FIsZero(num) THEN [exc |-> ZeroDivisionError, val |-> None]
       ELSE [exc |-> NoExc, val |-> FDiv(current_value, num)]
  ELSE [exc |-> NoExc, val |-> current_value]

\* A number token (lines 216-229).
ApplyNumber(current_value, last_operator, token) ==
  Combine(current_value, last_operator, float(token))

\* for token in tokens (lines 198-229), from token i on; ReduceOn: with r what
\* token i made of current_value.
RECURSIVE Reduce(_, _, _, _)
ReduceOn(tokens, i, r, last_operator) ==
  IF r.exc # NoExc THEN r ELSE Reduce(tokens, i + 1, r.val, last_operator)

Reduce(tokens, i, current_value, last_operator) ==
  IF i > Len(tokens) THEN [exc |-> NoExc, val |-> current_value]
  ELSE IF IsOperatorToken(tokens[i]) THEN Reduce(tokens, i + 1, current_value, tokens[i][1])
  ELSE ReduceOn(tokens, i,
                IF Has("%", tokens[i])
                THEN ApplyPercent(current_value, last_operator, tokens[i])
                ELSE ApplyNumber(current_value, last_operator, tokens[i]),
                last_operator)

\* The symbol replacements of lines 178-179.
ReplaceSymbols(expr) ==
  replace(replace(replace(replace(expr, TimesCh, <<"*">>), DivCh, <<"/">>),
                  PiCh, PiStr), "^", <<"*", "*">>)

\* Lines 190-231 for what the exponent loop leaves.
ReduceTokens(loop) ==
  IF loop.hang THEN [exc |-> Hang, val |-> None]
  ELSE Reduce(findall(loop.expr, 1), 1, None, "")

\* evaluate_simple_expression(expr): [exc, val], val the returned float or None.
evaluate_simple_expression(expr) ==
  ReduceTokens(ExponentLoop(SqrtCallSub(ReplaceSymbols(expr), 1)))

\* ------------------------------------------------------------ the formatter

\* The decimal digit string s plus one.
RECURSIVE IncDigits(_)
IncDigits(s) ==
  IF s = <<>> THEN <<"1">>
  ELSE IF s[Len(s)] = "9" THEN IncDigits(SubSeq(s, 1, Len(s) - 1)) \o <<"0">>
  ELSE SubSeq(s, 1, Len(s) - 1) \o <<DigitCh(DigitVal(s[Len(s)]) + 1)>>

\* Whether digits, followed by a rest that is below, at or above one half of
\* their last place (cmp < 0, = 0, > 0), round up: to nearest, a tie to even.
RoundsUp(digits, cmp) ==
  cmp > 0 \/ (cmp = 0 /\ DigitVal(digits[Len(digits)]) % 2 = 1)

\* digits rounded on the rest that follows them.
Rounded(digits, cmp) == IF RoundsUp(digits, cmp) THEN IncDigits(digits) ELSE digits

\* rem/d against one half: -1, 0 or 1.
HalfCmp(rem, d) == IF rem < d - rem THEN -1 ELSE IF rem = d - rem THEN 0 ELSE 1

\* abs(result) > 1e8
Above1e8(v) == v.n \div v.d > 100000000

\* abs(result) >= 1e8
AtLeast1e8(v) == v.n \div v.d >= 100000000

\* 0 < abs(result) < 1e-4 and result != 0
Below1eMinus4(v) == v.n # 0 /\ v.n < 200000 /\ v.n * 10000 < v.d

Sign(v) == IF v.neg THEN <<"-">> ELSE <<>>

\* The exponent form of the rounded nine digits up with exponent e (a tenth
\* digit is a carry out of the first).
Mantissa(sign, up, e) ==
  sign \o <<up[1], ".">> \o SubSeq(up, 2, 9) \o ExpStr(IF Len(up) > 9 THEN e + 1 ELSE e)

\* "{:.8e}".format(v) for |v| >= 1e8, ipd being the digits before the point (at
\* most ten).
FormatELarge(v, ipd) ==
  Mantissa(Sign(v),
           Rounded(SubSeq(ipd, 1, 9),
                   IF Len(ipd) = 9 THEN HalfCmp(v.n % v.d, v.d)
                   ELSE IF DigitVal(ipd[10]) > 5 THEN 1
                   ELSE IF DigitVal(ipd[10]) < 5 THEN -1
                   ELSE IF v.n % v.d > 0 THEN 1 ELSE 0),
           Len(ipd) - 1)

\* "{:.8e}".format(v) for 0 < |v| < 1, small being the lz zeros after the point
\* and the nine digits that follow them.
FormatESmall(v, lz, small) ==
  Mantissa(Sign(v),
           Rounded(SubSeq(small.digs, lz + 1, lz + 9), HalfCmp(small.rem, v.d)),
           -(lz + 1))

FormatEBelow1(v, lz) == FormatESmall(v, lz, FixedDigits(v.n % v.d, v.d, lz + 9))

\* "{:.8e}".format(v) for |v| >= 1e8 or 0 < |v| < 1e-4.
FormatE(v) ==
  IF v.n \div v.d > 0 THEN FormatELarge(v, NatStr(v.n \div v.d))
  ELSE FormatEBelow1(v, LeadingZeros(FixedDigits(v.n % v.d, v.d, 18).digs))

\* The digits up with a point before the last eight.
PointBefore8(sign, up) ==
  sign \o SubSeq(up, 1, Len(up) - 8) \o <<".">> \o SubSeq(up, Len(up) - 7, Len(up))

\* "{:.8f}".format(v)
FormatF(v) ==
  PointBefore8(Sign(v),
               Rounded(NatStr(v.n \div v.d) \o FixedDigits(v.n % v.d, v.d, 8).digs,
                       HalfCmp(FixedDigits(v.n % v.d, v.d, 8).rem, v.d)))

\* Lines 159-160.
OrZero(formatted) == IF formatted = <<>> THEN <<"0">> ELSE formatted

\* The formatting of lines 152-160, for a float result.
Format(result) ==
  IF AtLeast1e8(result) \/ Below1eMinus4(result) THEN FormatE(result)
  ELSE IF FIsInteger(result)
  THEN (IF result.neg /\ result.n > 0 THEN <<"-">> ELSE <<>>) \o NatStr(result.n)
  ELSE OrZero(rstrip(rstrip(FormatF(result), "0"), "."))

\* ------------------------------------------------------------ the outcomes

InputTooLong == <<"I", "n", "p", "u", "t", " ", "t", "o", "o", " ", "l", "o", "n", "g">>
UnbalancedParentheses ==
  <<"U", "n", "b", "a", "l", "a", "n", "c", "e", "d", " ",
    "p", "a", "r", "e", "n", "t", "h", "e", "s", "e", "s">>
InvalidNumber == <<"I", "n", "v", "a", "l", "i", "d", " ", "n", "u", "m", "b", "e", "r">>
InvalidSqrtInput ==
  <<"I", "n", "v", "a", "l", "i", "d", " ", "s", "q", "r", "t", " ", "i", "n", "p", "u", "t">>
CannotDivideBy0 ==
  <<"C", "a", "n", "n", "o", "t", " ", "d", "i", "v", "i", "d", "e", " ", "b", "y", " ", "0">>
Error == <<"E", "r", "r", "o", "r">>

ErrorStrings ==
  {InputTooLong, UnbalancedParentheses, InvalidNumber, InvalidSqrtInput, CannotDivideBy0, Error}

\* The longest input the validation lets through.
MaxInputLen == 100

\* Validate rejecting inputs from the longest accepted length on.
ValidateBelowMax(expr) ==
  IF Len(expr) >= MaxInputLen THEN InputTooLong
  ELSE IF Count("(", expr) # Count(")", expr) THEN UnbalancedParentheses
  ELSE IF MalformedNumber(expr) THEN InvalidNumber
  ELSE <<>>

\* The input validation of lines 122-127: the error returned, <<>> for none.
Validate(expr) ==
  IF Len(expr) > MaxInputLen THEN InputTooLong
  ELSE IF Count("(", expr) # Count(")", expr) THEN UnbalancedParentheses
  ELSE IF MalformedNumber(expr) THEN InvalidNumber
  ELSE <<>>

\* The Python exception classes below Exception that the model raises.
ExceptionClasses == {"TypeError", "ValueError", "ZeroDivisionError"}

\* Except without the clause for ZeroDivisionError, which the last clause
\* then catches.
ExceptWithoutZeroDivision(exc) ==
  IF exc.type = "ValueError"
  THEN [caught |-> TRUE,
        result |-> IF exc.msg = "math domain error" THEN InvalidSqrtInput ELSE Error]
  ELSE IF exc.type \in ExceptionClasses THEN [caught |-> TRUE, result |-> Error]
  ELSE [caught |-> FALSE, result |-> <<>>]

\* Except without the last clause, for Exception.
ExceptWithoutException(exc) ==
  IF exc.type = "ValueError"
  THEN [caught |-> TRUE,
        result |-> IF exc.msg = "math domain error" THEN InvalidSqrtInput ELSE Error]
  ELSE IF exc.type = "ZeroDivisionError" THEN [caught |-> TRUE, result |-> CannotDivideBy0]
  ELSE [caught |-> FALSE, result |-> <<>>]

\* The except clauses of lines 165-173: [caught, result].
Except(exc) ==
  IF exc.type = "ValueError"
  THEN [caught |-> TRUE,
        result |-> IF exc.msg = "math domain error" THEN InvalidSqrtInput ELSE Error]
  ELSE IF exc.type = "ZeroDivisionError" THEN [caught |-> TRUE, result |-> CannotDivideBy0]
  ELSE IF exc.type \in ExceptionClasses THEN [caught |-> TRUE, result |-> Error]
  ELSE [caught |-> FALSE, result |-> <<>>]

\* How a call ends: the str it returns, an exception it lets escape, or never.
Returned(result) == [status |-> "returned", result |-> result]
Raised(exc) == [status |-> "raised", result |-> <<>>]
NeverReturns == [status |-> "hang", result |-> <<>>]

\* What the except clauses make of an exception raised in the try block.
Handled(exc) ==
  IF exc = Hang THEN NeverReturns
  ELSE IF Except(exc).caught THEN Returned(Except(exc).result) ELSE Raised(exc)

\* ------------------------------------------------------------ the rewrite loops

\* The replacement r of the leftmost match (after head) and the substitution
\* rest of what follows it, the first exception of the two ending the pass:
\* [exc, out].
Join(head, r, rest) ==
  IF r.exc # NoExc THEN r
  ELSE IF rest.exc # NoExc THEN rest
  ELSE [exc |-> NoExc, out |-> head \o r.out \o rest.out]

\* str(math.sqrt(float(r))) for the outcome r of evaluate_simple_expression:
\* [exc, out]
SqrtOfValue(r) ==
  IF r.exc # NoExc THEN [exc |-> r.exc, out |-> <<>>]
  ELSE IF IsNone(r.val) THEN [exc |-> TypeError, out |-> <<>>]
  ELSE IF FIsNeg(r.val) THEN [exc |-> MathDomainError, out |-> <<>>]
  ELSE [exc |-> NoExc, out |-> str(Sqrt(r.val))]

\* lambda m: str(math.sqrt(float(self.evaluate_simple_expression(m.group(1)))))
SqrtOfGroup(group) == SqrtOfValue(evaluate_simple_expression(group))

\* re.sub(r'R\(([^)]+)\)', lambda, s) from index i on: [exc, out].  The group
\* runs to the first ")" after the "R(" and holds at least one character;
\* RootGroupFrom: with p the index of the leftmost match at or after i, 0 for
\* none.
RECURSIVE RootGroupSub(_, _)
RootGroupAt(s, i, p, close) ==
  Join(Slice(s, i, p), SqrtOfGroup(Slice(s, p + 2, close)), RootGroupSub(s, close + 1))

RootGroupFrom(s, i, p) ==
  IF p = 0 THEN [exc |-> NoExc, out |-> Slice(s, i, Len(s) + 1)]
  ELSE RootGroupAt(s, i, p, IndexFrom(")", s, p + 2))

RootGroupSub(s, i) ==
  RootGroupFrom(s, i,
    First({j \in i..Len(s) :
             s[j] = RootCh /\ At(s, j + 1) = "(" /\ IndexFrom(")", s, j + 2) >= j + 3}))

\* re.sub(r'R(\d+\.?\d*)', lambda m: str(math.sqrt(float(m.group(1)))), s) from
\* index i on; RootNumberFrom: with p the index of the leftmost match at or
\* after i, 0 for none.
RECURSIVE RootNumberSub(_, _)
RootNumberFrom(s, i, p) ==
  IF p = 0 THEN Slice(s, i, Len(s) + 1)
  ELSE Slice(s, i, p) \o str(Sqrt(float(Slice(s, p + 1, NumberEnd(s, p + 1)))))
         \o RootNumberSub(s, NumberEnd(s, p + 1))

RootNumberSub(s, i) ==
  RootNumberFrom(s, i, First({j \in i..Len(s) : s[j] = RootCh /\ NumberEnd(s, j + 1) # 0}))

\* Lines 138-140 after the outcome a of lines 134-136.
RootNumbers(a) ==
  IF a.exc # NoExc THEN a ELSE [exc |-> NoExc, out |-> RootNumberSub(a.out, 1)]

\* The body of "while 'R' in expr" (lines 134-140): [exc, out].
RootPass(expr) == RootNumbers(RootGroupSub(expr, 1))

\* str(r) for the outcome r of evaluate_simple_expression: [exc, out]
StrOfValue(r) ==
  IF r.exc # NoExc THEN [exc |-> r.exc, out |-> <<>>] ELSE [exc |-> NoExc, out |-> str(r.val)]

\* lambda m: str(self.evaluate_simple_expression(m.group(1)))
ValueOfGroup(group) == StrOfValue(evaluate_simple_expression(group))

\* The body of "while '(' in expr" (lines 144-146), from index i on: [exc, out].
\* re.sub(r'\(([^()]+)\)', lambda, s): the group holds no parenthesis and at
\* least one character; ParenFrom: with p the index of the leftmost match at or
\* after i, 0 for none.
RECURSIVE ParenPass(_, _)
ParenAt(s, i, p, close) ==
  Join(Slice(s, i, p), ValueOfGroup(Slice(s, p + 1, close)), ParenPass(s, close + 1))

ParenFrom(s, i, p) ==
  IF p = 0 THEN [exc |-> NoExc, out |-> Slice(s, i, Len(s) + 1)]
  ELSE ParenAt(s, i, p, IndexOfAny({"(", ")"}, s, p + 1))

ParenPass(s, i) ==
  ParenFrom(s, i,
    First({j \in i..Len(s) :
             /\ s[j] = "("
             /\ IndexOfAny({"(", ")"}, s, j + 1) >= j + 2
             /\ s[IndexOfAny({"(", ")"}, s, j + 1)] = ")"}))

\* Lines 152-160 for the outcome r of line 149: [exc, out].
FormatValue(r) ==
  IF r.exc # NoExc THEN [exc |-> r.exc, out |-> <<>>]
  ELSE IF IsNone(r.val) THEN [exc |-> TypeError, out |-> <<>>]
  ELSE [exc |-> NoExc, out |-> Format(r.val)]

\* Lines 149-160: the value of the rewritten expr, formatted: [exc, out].
FinalResult(expr) == FormatValue(evaluate_simple_expression(expr))

\* ------------------------------------------------------------ a whole call

\* Where the call stands after an iteration r of a rewrite loop on expr: ended
\* by an exception, in the same iteration for ever (the body is a function of
\* expr, so an iteration that leaves expr as it was repeats), or "running"
\* with the new expr.
Iterated(expr, r) ==
  IF r.exc # NoExc THEN Handled(r.exc)
  ELSE IF r.out = expr THEN NeverReturns
  ELSE [status |-> "running", result |-> r.out]

\* What lines 149-164 return.
Final(r) == IF r.exc # NoExc THEN Handled(r.exc) ELSE Returned(r.out)

\* Lines 143-160 for the buffer expr.
RECURSIVE ParenLoop(_)
ParenLoopOn(o) == IF o.status = "running" THEN ParenLoop(o.result) ELSE o

ParenLoop(expr) ==
  IF Has("(", expr) THEN ParenLoopOn(Iterated(expr, ParenPass(expr, 1)))
  ELSE Final(FinalResult(expr))

\* Lines 133-160 for the buffer expr.
RECURSIVE RootLoop(_)
RootLoopOn(o) == IF o.status = "running" THEN RootLoop(o.result) ELSE o

RootLoop(expr) ==
  IF Has(RootCh, expr) THEN RootLoopOn(Iterated(expr, RootPass(expr)))
  ELSE ParenLoop(expr)

\* The outcome of the validation, or of the rest of the call.
ValidatedThen(error, rest) == IF error # <<>> THEN Returned(error) ELSE rest

\* evaluate_expression(expr), from call to return.
evaluate_expression(expr) == ValidatedThen(Validate(expr), RootLoop(expr))

\* ------------------------------------------------------------ the calculator

VARIABLES
  current_input,   \* Calculator.current_input
  result_preview,  \* Calculator.result_preview
  cursor_pos,      \* Calculator.cursor_pos
  scroll_offset,   \* Calculator.scroll_offset
  history_list,    \* Calculator.history_list, newest first
  clipboard,       \* what clipboard.paste() returns
  pc,              \* where evaluate_expression stands: "idle" outside a call,
                   \* "roots", "parens", "final" at lines 133, 143, 149,
                   \* "raised" once an exception has left the call, "hang" once
                   \* the call is in a loop it does not leave
  expr,            \* the local expr of evaluate_expression
  original_expr,   \* the local original_expr of evaluate_expression
  term,            \* the expression on the clipboard, item by item
  select_start,    \* Calculator.select_start: <<>> for None, <<n>> for n
  select_end,      \* Calculator.select_end: <<>> for None, <<n>> for n
  mouse_selecting, \* Calculator.mouse_selecting
  showing_history,     \* Calculator.showing_history
  history_animation,   \* Calculator.history_animation
  history_view_offset  \* Calculator.history_view_offset

\* The selection and the history panel.
selection == <<select_start, select_end, mouse_selecting>>
panel == <<showing_history, history_animation, history_view_offset>>

vars ==
  <<current_input, result_preview, cursor_pos, scroll_offset, history_list,
    clipboard, pc, expr, original_expr, term, selection, panel>>

WIDTH == 400
ANIMATION_SPEED == 15

MAX_CHARS_PER_LINE == 22
LINE_HEIGHT == 40
\* self.display_rect.height
DisplayHeight == 100

\* The evaluations of one run (each successful one adds a history record).
MaxHistory == 2

HistoryItem(expression, result) == [expression |-> expression, result |-> result]

\* The scroll_offset that update_scroll_to_cursor leaves.
update_scroll_to_cursor(pos, offset) ==
  LET line_idx == pos \div MAX_CHARS_PER_LINE
      visible_lines == DisplayHeight \div LINE_HEIGHT
  IN IF line_idx < offset THEN line_idx
     ELSE IF line_idx >= offset + visible_lines
     THEN (IF line_idx - visible_lines + 1 > 0 THEN line_idx - visible_lines + 1 ELSE 0)
     ELSE offset

\* The text of a term: its items' texts in order.
RECURSIVE Text(_)
Text(t) == IF t = <<>> THEN <<>> ELSE Head(t).text \o Text(Tail(t))

\* Calculator.__init__, with the term t on the clipboard.
Construct(t) ==
  /\ current_input = <<>>
  /\ result_preview = <<>>
  /\ cursor_pos = 0
  /\ scroll_offset = 0
  /\ history_list = <<>>
  /\ clipboard = Text(t)
  /\ pc = "idle"
  /\ expr = <<>>
  /\ original_expr = <<>>
  /\ term = t
  /\ select_start = <<>>
  /\ select_end = <<>>
  /\ mouse_selecting = FALSE
  /\ showing_history = FALSE
  /\ history_animation = 0
  /\ history_view_offset = WIDTH

\* Ctrl+V with nothing selected (handle_input_event), into an empty input.
Paste ==
  /\ pc = "idle"
  /\ current_input = <<>>
  /\ LET pasted == clipboard
     IN /\ current_input' = SubSeq(current_input, 1, cursor_pos) \o pasted
                              \o SubSeq(current_input, cursor_pos + 1, Len(current_input))
        /\ cursor_pos' = cursor_pos + Len(pasted)
        /\ scroll_offset' = update_scroll_to_cursor(cursor_pos + Len(pasted), scroll_offset)
  /\ select_start' = <<>>
  /\ select_end' = <<>>
  /\ UNCHANGED <<result_preview, history_list, clipboard, pc, expr, original_expr, term,
                 mouse_selecting, panel>>

\* The end of a call of evaluate_expression made by handle_button_click("="):
\* the call returns and the handler stores the result, or it does not return.
Finish(outcome) ==
  IF outcome.status = "returned"
  THEN /\ pc' = "idle"
       /\ result_preview' = outcome.result
       /\ cursor_pos' = Len(current_input)
       /\ expr' = <<>>
       /\ original_expr' = <<>>
  ELSE /\ pc' = outcome.status
       /\ UNCHANGED <<result_preview, cursor_pos, expr, original_expr>>

\* handle_button_click("="): the call of evaluate_expression, lines 120-130.
ClickEquals ==
  /\ pc = "idle"
  /\ ~showing_history
  /\ current_input # <<>>
  /\ Len(history_list) < MaxHistory
  /\ IF Validate(current_input) # <<>>
     THEN Finish(Returned(Validate(current_input)))
     ELSE /\ pc' = "roots"
          /\ expr' = current_input
          /\ original_expr' = current_input
          /\ UNCHANGED <<result_preview, cursor_pos>>
  /\ UNCHANGED <<current_input, scroll_offset, history_list, clipboard, term, selection, panel>>

\* The call after an iteration of a rewrite loop: the loop goes on with the
\* new expr, or the call ends.
Step(o) ==
  IF o.status = "running"
  THEN expr' = o.result /\ UNCHANGED <<result_preview, cursor_pos, pc, original_expr>>
  ELSE Finish(o)

\* Lines 133-140: the test of the root loop and one iteration of it.
RootStep ==
  /\ pc = "roots"
  /\ IF ~Has(RootCh, expr)
     THEN pc' = "parens" /\ UNCHANGED <<result_preview, cursor_pos, expr, original_expr>>
     ELSE Step(Iterated(expr, RootPass(expr)))
  /\ UNCHANGED <<current_input, scroll_offset, history_list, clipboard, term, selection, panel>>

\* Lines 143-146: the test of the parenthesis loop and one iteration of it.
ParenStep ==
  /\ pc = "parens"
  /\ IF ~Has("(", expr)
     THEN pc' = "final" /\ UNCHANGED <<result_preview, cursor_pos, expr, original_expr>>
     ELSE Step(Iterated(expr, ParenPass(expr, 1)))
  /\ UNCHANGED <<current_input, scroll_offset, history_list, clipboard, term, selection, panel>>

\* Record with the rewritten buffer in the history record.
RecordRewritten(r) ==
  /\ history_list' = IF r.exc # NoExc THEN history_list
                     ELSE <<HistoryItem(expr, r.out)>> \o history_list
  /\ Finish(Final(r))

\* Lines 162-164 after the outcome r of lines 149-160: the history record and
\* the return, or the exception.
Record(r) ==
  /\ history_list' = IF r.exc # NoExc THEN history_list
                     ELSE <<HistoryItem(original_expr, r.out)>> \o history_list
  /\ Finish(Final(r))

\* Lines 149-164: the last evaluation, the formatting and the history record.
FinalStep ==
  /\ pc = "final"
  /\ Record(FinalResult(expr))
  /\ UNCHANGED <<current_input, scroll_offset, clipboard, term, selection, panel>>

Next == Paste \/ ClickEquals \/ RootStep \/ ParenStep \/ FinalStep

\* handle_button_click("AC").
ClickAC ==
  /\ pc = "idle"
  /\ ~showing_history
  /\ current_input # <<>>
  /\ current_input' = <<>>
  /\ result_preview' = <<>>
  /\ cursor_pos' = 0
  /\ UNCHANGED <<scroll_offset, history_list, clipboard, pc, expr, original_expr, term,
                 selection, panel>>

\* Another program puts the text of the term t on the clipboard.
CopyTerm(t) ==
  /\ pc = "idle"
  /\ current_input = <<>>
  /\ clipboard # Text(t)
  /\ clipboard' = Text(t)
  /\ term' = t
  /\ UNCHANGED <<current_input, result_preview, cursor_pos, scroll_offset, history_list,
                 pc, expr, original_expr, selection, panel>>

\* ------------------------------------------------------------ editing

\* The longest input of an editing run.
MaxEditLen == 3

\* The index k of a slice of s, as Python reads it: from the end when negative,
\* and kept inside s.
SliceIndex(s, k) ==
  IF k < 0 THEN (IF Len(s) + k < 0 THEN 0 ELSE Len(s) + k)
  ELSE IF k > Len(s) THEN Len(s) ELSE k

\* s[:k], s[k:] and s[a:b].
Upto(s, k) == SubSeq(s, 1, SliceIndex(s, k))
From(s, k) == SubSeq(s, SliceIndex(s, k) + 1, Len(s))
Between(s, a, b) ==
  IF SliceIndex(s, a) < SliceIndex(s, b)
  THEN SubSeq(s, SliceIndex(s, a) + 1, SliceIndex(s, b)) ELSE <<>>

\* get_selected_range(): whether it returns a range, and its two ends.
HasRange == select_start # <<>> /\ select_end # <<>>
sel_start == IF select_start[1] < select_end[1] THEN select_start[1] ELSE select_end[1]
sel_end == IF select_start[1] < select_end[1] THEN select_end[1] ELSE select_start[1]

\* The number of lines of wrap_text(text, MAX_CHARS_PER_LINE).
LineCount(text) ==
  IF text = <<>> THEN 1 ELSE (Len(text) + MAX_CHARS_PER_LINE - 1) \div MAX_CHARS_PER_LINE

\* The length of lines[i] of wrap_text(text, MAX_CHARS_PER_LINE), i counting
\* from 0, and from the end when negative.
LineLen(text, i) ==
  LET k == IF i < 0 THEN LineCount(text) + i ELSE i
      rest == Len(text) - k * MAX_CHARS_PER_LINE
  IN IF rest > MAX_CHARS_PER_LINE THEN MAX_CHARS_PER_LINE ELSE rest

\* An edit of the input that ends the selection: the input and the cursor it
\* leaves, and the scroll_offset it leaves.
Edited(input, pos, offset) ==
  /\ current_input' = input
  /\ cursor_pos' = pos
  /\ scroll_offset' = offset
  /\ select_start' = <<>>
  /\ select_end' = <<>>
  /\ UNCHANGED <<result_preview, history_list, clipboard, pc, expr, original_expr, term,
                 mouse_selecting, panel>>

\* The text inserted at the cursor, or in place of the range a..b.
Inserted(text, a, b) == Upto(current_input, a) \o text \o From(current_input, b)

\* A printable character typed (lines 306-317 and 339).
TypeChar(ch) ==
  /\ pc = "idle"
  /\ Len(current_input) < MaxEditLen
  /\ IF HasRange /\ select_start # select_end
     THEN Edited(Inserted(<<ch>>, sel_start, sel_end), sel_start + 1,
                 update_scroll_to_cursor(sel_start + 1, scroll_offset))
     ELSE Edited(Inserted(<<ch>>, cursor_pos, cursor_pos), cursor_pos + 1,
                 update_scroll_to_cursor(cursor_pos + 1, scroll_offset))

\* Ctrl+V (lines 275-285 and 339).
PasteKey ==
  /\ pc = "idle"
  /\ Len(current_input) + Len(clipboard) <= MaxEditLen
  /\ IF HasRange
     THEN Edited(Inserted(clipboard, sel_start, sel_end), sel_start + Len(clipboard),
                 update_scroll_to_cursor(sel_start + Len(clipboard), scroll_offset))
     ELSE Edited(Inserted(clipboard, cursor_pos, cursor_pos), cursor_pos + Len(clipboard),
                 update_scroll_to_cursor(cursor_pos + Len(clipboard), scroll_offset))

\* Backspace (lines 287-296 and 339).
Backspace ==
  /\ pc = "idle"
  /\ IF HasRange /\ select_start # select_end
     THEN Edited(Inserted(<<>>, sel_start, sel_end), sel_start,
                 update_scroll_to_cursor(sel_start, scroll_offset))
     ELSE /\ cursor_pos > 0
          /\ current_input' = Inserted(<<>>, cursor_pos - 1, cursor_pos)
          /\ cursor_pos' = cursor_pos - 1
          /\ scroll_offset' = update_scroll_to_cursor(cursor_pos - 1, scroll_offset)
          /\ UNCHANGED <<result_preview, history_list, clipboard, pc, expr, original_expr,
                         term, selection, panel>>

\* The cursor moved to pos by an arrow key, with or without Shift.
Moved(pos, shift) ==
  /\ cursor_pos' = pos
  /\ select_start' = IF shift THEN (IF select_start = <<>> THEN <<cursor_pos>> ELSE select_start)
                     ELSE <<>>
  /\ select_end' = IF shift THEN <<pos>> ELSE <<>>
  /\ scroll_offset' = update_scroll_to_cursor(pos, scroll_offset)
  /\ UNCHANGED <<current_input, result_preview, history_list, clipboard, pc, expr,
                 original_expr, term, mouse_selecting, panel>>

\* The left arrow key (lines 319-327 and 339).
ArrowLeft(shift) ==
  /\ pc = "idle"
  /\ Moved(IF cursor_pos - 1 > 0 THEN cursor_pos - 1 ELSE 0, shift)

\* The right arrow key (lines 329-337 and 339).
ArrowRight(shift) ==
  /\ pc = "idle"
  /\ Moved(IF cursor_pos + 1 < Len(current_input) THEN cursor_pos + 1 ELSE Len(current_input),
           shift)

\* handle_button_click("CE").
ClickCE ==
  /\ pc = "idle"
  /\ ~showing_history
  /\ cursor_pos > 0
  /\ current_input' = Inserted(<<>>, cursor_pos - 1, cursor_pos)
  /\ cursor_pos' = cursor_pos - 1
  /\ UNCHANGED <<result_preview, scroll_offset, history_list, clipboard, pc, expr,
                 original_expr, term, selection, panel>>

\* handle_button_click of the root button (lines 472-485).
ClickRoot ==
  /\ pc = "idle"
  /\ ~showing_history
  /\ Len(current_input) + 3 <= MaxEditLen
  /\ IF HasRange
     THEN Edited(Inserted(<<RootCh, "(">> \o Between(current_input, sel_start, sel_end)
                            \o <<")">>, sel_start, sel_end),
                 sel_start + 2 + (sel_end - sel_start) + 1, scroll_offset)
     ELSE Edited(Inserted(<<RootCh, "(", ")">>, cursor_pos, cursor_pos), cursor_pos + 2,
                 scroll_offset)

\* handle_button_click of a button that inserts its label (lines 486-494).
ClickLabel(label) ==
  /\ pc = "idle"
  /\ ~showing_history
  /\ Len(current_input) + Len(label) <= MaxEditLen
  /\ IF HasRange
     THEN Edited(Inserted(label, sel_start, sel_end), sel_start + Len(label), scroll_offset)
     ELSE Edited(Inserted(label, cursor_pos, cursor_pos), cursor_pos + Len(label),
                 scroll_offset)

\* The cursor that handle_mouse_click and handle_mouse_selection compute for a
\* position in the row-th line of the display (rel_y // LINE_HEIGHT = row) whose
\* rel_x falls behind char_idx characters of that line.
CursorAt(row, char_idx) ==
  LET to == (scroll_offset + row) * MAX_CHARS_PER_LINE + char_idx
  IN IF to < Len(current_input) THEN to ELSE Len(current_input)

\* The values of char_idx for a position in the row-th line: any count up to
\* the length of lines[line_idx], 0 below the last line; none where
\* lines[line_idx] raises IndexError.
CharIdx(row) ==
  LET line_idx == scroll_offset + row
  IN IF line_idx >= LineCount(current_input) THEN {0}
     ELSE IF line_idx < 0 - LineCount(current_input) THEN {}
     ELSE 0..LineLen(current_input, line_idx)

\* The rows of a position inside display_rect: rel_y is in -5..94.
ClickRows == {0 - 1, 0, 1, 2}

\* The rows the pointer is dragged over.
DragRows == {0 - 1, 0, 1}

\* MOUSEBUTTONDOWN inside the display (lines 342-343 and 496-511).
MouseClick(row, char_idx) ==
  /\ pc = "idle"
  /\ ~showing_history
  /\ cursor_pos' = CursorAt(row, char_idx)
  /\ select_start' = <<CursorAt(row, char_idx)>>
  /\ select_end' = <<CursorAt(row, char_idx)>>
  /\ mouse_selecting' = TRUE
  /\ UNCHANGED <<current_input, result_preview, scroll_offset, history_list, clipboard, pc,
                 expr, original_expr, term, panel>>

\* MOUSEMOTION while selecting (lines 393-394 and 513-527).
MouseDrag(row, char_idx) ==
  /\ pc = "idle"
  /\ mouse_selecting
  /\ ~showing_history
  /\ cursor_pos' = CursorAt(row, char_idx)
  /\ select_end' = <<CursorAt(row, char_idx)>>
  /\ UNCHANGED <<current_input, result_preview, scroll_offset, history_list, clipboard, pc,
                 expr, original_expr, term, select_start, mouse_selecting, panel>>

\* MOUSEBUTTONUP (lines 400-403).
MouseUp ==
  /\ pc = "idle"
  /\ mouse_selecting
  /\ mouse_selecting' = FALSE
  /\ UNCHANGED <<current_input, result_preview, cursor_pos, scroll_offset, history_list,
                 clipboard, pc, expr, original_expr, term, select_start, select_end, panel>>

\* ------------------------------------------------------------ the history panel

\* show_history(), called by run for a click of the history button while the
\* panel is not shown (lines 727-731).
ShowHistory ==
  /\ pc = "idle"
  /\ ~showing_history
  /\ history_animation' = 1
  /\ UNCHANGED <<current_input, result_preview, cursor_pos, scroll_offset, history_list,
                 clipboard, pc, expr, original_expr, term, selection, showing_history,
                 history_view_offset>>

\* hide_history(), called for the B key and for the back button while the
\* panel is shown or moving (lines 266-268 and 361-370).
HideHistory ==
  /\ pc = "idle"
  /\ showing_history \/ history_animation # 0
  /\ history_animation' = 0 - 1
  /\ UNCHANGED <<current_input, result_preview, cursor_pos, scroll_offset, history_list,
                 clipboard, pc, expr, original_expr, term, selection, showing_history,
                 history_view_offset>>

\* A click of the i-th record of the panel (lines 384-389).
SelectHistoryItem(i) ==
  /\ pc = "idle"
  /\ showing_history \/ history_animation # 0
  /\ current_input' = history_list[i].expression
  /\ result_preview' = history_list[i].result
  /\ cursor_pos' = Len(history_list[i].expression)
  /\ history_animation' = 0 - 1
  /\ UNCHANGED <<scroll_offset, history_list, clipboard, pc, expr, original_expr, term,
                 selection, showing_history, history_view_offset>>

\* The offset one step short of its end.
StepShort(animation, offset) ==
  IF animation = 1
  THEN (IF offset - ANIMATION_SPEED > ANIMATION_SPEED THEN offset - ANIMATION_SPEED
        ELSE ANIMATION_SPEED)
  ELSE (IF offset + ANIMATION_SPEED < WIDTH - ANIMATION_SPEED THEN offset + ANIMATION_SPEED
        ELSE WIDTH - ANIMATION_SPEED)

\* The history_view_offset one frame later while the panel moves (lines 562 and
\* 567).
StepOffset(animation, offset) ==
  IF animation = 1
  THEN (IF offset - ANIMATION_SPEED > 0 THEN offset - ANIMATION_SPEED ELSE 0)
  ELSE (IF offset + ANIMATION_SPEED < WIDTH THEN offset + ANIMATION_SPEED ELSE WIDTH)

\* update_history_animation(), called once a frame (line 756).
Tick ==
  /\ pc = "idle"
  /\ IF history_animation = 0
     THEN UNCHANGED panel
     ELSE LET offset == StepOffset(history_animation, history_view_offset)
              arrived == offset = (IF history_animation = 1 THEN 0 ELSE WIDTH)
          IN /\ history_view_offset' = offset
             /\ history_animation' = IF arrived THEN 0 ELSE history_animation
             /\ showing_history' = IF arrived THEN history_animation = 1
                                   ELSE showing_history
  /\ UNCHANGED <<current_input, result_preview, cursor_pos, scroll_offset, history_list,
                 clipboard, pc, expr, original_expr, term, selection>>

\* ------------------------------------------------------------ the expressions entered

\* An expression is entered as a term: a sequence of items, each with its text
\* and, for a number, the value it denotes.
Num(text, n, d) == [kind |-> "num", text |-> text, value |-> Flt(FALSE, n, d)]
Pct(text, n, d) == [kind |-> "pct", text |-> text \o <<"%">>, value |-> Flt(FALSE, n, d)]
Op(ch) == [kind |-> "op", text |-> <<ch>>, value |-> None]
Sym(text) == [kind |-> "sym", text |-> text, value |-> None]

Operators == {Op("+"), Op("-"), Op(TimesCh), Op(DivCh)}

\* The most operators of a generated chain.
MaxOps == 2

\* The chains n0 op1 n1 ... opk nk, k <= ops, over the operands.
RECURSIVE Chains(_, _)
Chains(operands, ops) ==
  IF ops = 0 THEN {<<n>> : n \in operands}
  ELSE LET shorter == Chains(operands, ops - 1)
       IN shorter \cup {t \o <<o, n>> : t \in shorter, o \in Operators, n \in operands}

\* a o b for an operator character o and numbers a and b, b # 0 under D.
Arith(a, o, b) ==
  CASE o = "+" -> FAdd(a, b)
    [] o = "-" -> FSub(a, b)
    [] o = TimesCh -> FMul(a, b)
    [] o = DivCh -> FDiv(a, b)

\* The strictly left-to-right value ((n0 op1 n1) op2 n2)... of the chain t from
\* the operator at index i on, acc being the value so far: [ok, val], ok false
\* where it divides by zero.
RECURSIVE LeftToRightFrom(_, _, _)
LeftToRightFrom(t, i, acc) ==
  IF i > Len(t) THEN [ok |-> TRUE, val |-> acc]
  ELSE IF t[i].text[1] = DivCh /\ FIsZero(t[i + 1].value) THEN [ok |-> FALSE, val |-> None]
  ELSE LeftToRightFrom(t, i + 2, Arith(acc, t[i].text[1], t[i + 1].value))

LeftToRight(t) == LeftToRightFrom(t, 2, t[1].value)

\* A call of evaluate_expression has returned to the "=" handler.
Evaluated == pc = "idle" /\ result_preview # <<>>

\* ------------------------------------------------------------ arithmetic chains

ArithLiterals == {Num(<<"2">>, 2, 1), Num(<<"3">>, 3, 1), Num(<<"4">>, 4, 1)}

ArithExamples ==
  {<<Num(<<"1", "0">>, 10, 1), Op(DivCh), Num(<<"2">>, 2, 1), Op(TimesCh), Num(<<"5">>, 5, 1)>>,
   <<Num(<<"6">>, 6, 1), Op("-"), Num(<<"2">>, 2, 1), Op("+"), Num(<<"1">>, 1, 1)>>,
   <<Num(<<"0", ".", "5">>, 1, 2), Op("+"), Num(<<"1", ".", "2", "5">>, 5, 4)>>,
   <<Num(<<"7">>, 7, 1), Op(DivCh), Num(<<"0">>, 0, 1)>>}

ArithTerms == Chains(ArithLiterals, MaxOps) \cup ArithExamples

Init == \E t \in ArithTerms : Construct(t)

Spec == Init /\ [][Next]_vars

\* C1: for a chain n0 op1 n1 ... opk nk of non-negative literals and + - X D,
\* evaluate_expression returns the formatted value of the strictly
\* left-to-right reduction, with no precedence among the operators.
C1_LeftToRight ==
  (Evaluated /\ term \in ArithTerms /\ LeftToRight(term).ok)
    => result_preview = Format(LeftToRight(term).val)

\* "2+3X4" has returned "20", "10D2X5" has returned "25" or "6-2+1" has
\* returned "5".
C1_Witness ==
  /\ Evaluated
  /\ <<current_input, result_preview>> \in
       {<<(<<"2", "+", "3", TimesCh, "4">>), (<<"2", "0">>)>>,
        <<(<<"1", "0", DivCh, "2", TimesCh, "5">>), (<<"2", "5">>)>>,
        <<(<<"6", "-", "2", "+", "1">>), (<<"5">>)>>}

\* ------------------------------------------------------------ percentages

PercentAccumulators == {Num(<<"2", "0", "0">>, 200, 1), Num(<<"8">>, 8, 1)}

Percentages == {Pct(<<"1", "0">>, 10, 1), Pct(<<"5", "0">>, 50, 1), Pct(<<"2", ".", "5">>, 5, 2)}

\* A percentage alone, or after a chain and an operator.
PercentTerms ==
  {<<p>> : p \in Percentages}
    \cup {t \o <<o, p>> : t \in Chains(PercentAccumulators, MaxOps - 1),
                          o \in Operators, p \in Percentages}

InitPercent == \E t \in PercentTerms : Construct(t)

SpecPercent == InitPercent /\ [][Next]_vars

\* What the accumulator A becomes by the percentage p% after the operator o.
PercentRule(A, o, p) ==
  CASE o = "+" -> FAdd(A, FMul(A, FDiv(p, FInt(100))))
    [] o = "-" -> FSub(A, FMul(A, FDiv(p, FInt(100))))
    [] o = TimesCh -> FMul(A, FDiv(p, FInt(100)))
    [] o = DivCh -> FDiv(A, FDiv(p, FInt(100)))

\* C2: a percentage token p% is combined with the accumulator A by the pending
\* operator: A + A*(p/100) after +, A - A*(p/100) after -, A*(p/100) after X,
\* A/(p/100) after D; a lone percentage yields p/100.
C2_Percentage ==
  (Evaluated /\ term \in PercentTerms)
    => IF Len(term) = 1
       THEN result_preview = Format(FDiv(term[1].value, FInt(100)))
       ELSE result_preview =
              Format(PercentRule(LeftToRight(SubSeq(term, 1, Len(term) - 2)).val,
                                 term[Len(term) - 1].text[1], term[Len(term)].value))

\* "200+10%" has returned "220" or "200X10%" has returned "20".
C2_Witness ==
  /\ Evaluated
  /\ <<current_input, result_preview>> \in
       {<<(<<"2", "0", "0", "+", "1", "0", "%">>), (<<"2", "2", "0">>)>>,
        <<(<<"2", "0", "0", TimesCh, "1", "0", "%">>), (<<"2", "0">>)>>}

\* ------------------------------------------------------------ exponents

\* The pattern base ^ exponent of two literals, standing for base ** exponent.
Pow(b, c) ==
  [kind |-> "pow", text |-> b.text \o <<"^">> \o c.text, value |-> FPow(b.value, c.value)]

ExponentLiterals == {Num(<<"2">>, 2, 1), Num(<<"3">>, 3, 1)}

Powers ==
  {Pow(Num(<<"3">>, 3, 1), Num(<<"2">>, 2, 1)),
   Pow(Num(<<"2">>, 2, 1), Num(<<"3">>, 3, 1)),
   Pow(Num(<<"1", "0">>, 10, 1), Num(<<"2">>, 2, 1)),
   Pow(Num(<<"0", ".", "5">>, 1, 2), Num(<<"2">>, 2, 1)),
   Pow(Num(<<"0", ".", "0", "0", "1">>, 1, 1000), Num(<<"2">>, 2, 1))}

HasPower(t) == \E i \in 1..Len(t) : t[i].kind = "pow"

\* A power alone, and a power and another operand around one operator.
ExponentTerms == {t \in Chains(ExponentLiterals \cup Powers, 1) : HasPower(t)}

InitExponent == \E t \in ExponentTerms : Construct(t)

SpecExponent == InitExponent /\ [][Next]_vars

\* C3: every pattern base ^ exponent of two non-negative literals is replaced
\* by base ** exponent before any + - X D reduction, so that a op b^c returns
\* the formatted value of a op (b ** c).
C3_ExponentFirst ==
  (Evaluated /\ term \in ExponentTerms /\ LeftToRight(term).ok)
    => result_preview = Format(LeftToRight(term).val)

\* ------------------------------------------------------------ nested roots

\* Fourth powers, so that both roots are exact.
FourthPowers ==
  {Num(<<"0">>, 0, 1), Num(<<"1">>, 1, 1), Num(<<"1", "6">>, 16, 1), Num(<<"8", "1">>, 81, 1),
   Num(<<"2", "5", "6">>, 256, 1), Num(<<"6", "2", "5">>, 625, 1),
   Num(<<"1", "2", "9", "6">>, 1296, 1), Num(<<"2", "4", "0", "1">>, 2401, 1),
   Num(<<"4", "0", "9", "6">>, 4096, 1), Num(<<"6", "5", "6", "1">>, 6561, 1),
   Num(<<"1", "0", "0", "0", "0">>, 10000, 1), Num(<<"1", "4", "6", "4", "1">>, 14641, 1),
   Num(<<"2", "0", "7", "3", "6">>, 20736, 1), Num(<<"6", "5", "5", "3", "6">>, 65536, 1),
   Num(<<"1", "6", ".", "0">>, 16, 1), Num(<<"0", ".", "0", "6", "2", "5">>, 625, 10000),
   Num(<<"0", ".", "0", "0", "1", "6">>, 16, 10000),
   Num(<<"5", ".", "0", "6", "2", "5">>, 50625, 10000),
   Num(<<"3", "9", ".", "0", "6", "2", "5">>, 390625, 10000)}

\* R(R(x))
NestedRootTerms ==
  {<<Sym(<<RootCh, "(">>), Sym(<<RootCh, "(">>), x, Sym(<<")">>), Sym(<<")">>)>> :
     x \in FourthPowers}

InitNestedRoot == \E t \in NestedRootTerms : Construct(t)

SpecNestedRoot == InitNestedRoot /\ [][Next]_vars

\* C4: a nested square root R(R(x)) returns the formatted value of
\* sqrt(sqrt(x)), the inner root being resolved first and then the outer one.
C4_NestedRoot ==
  (Evaluated /\ term \in NestedRootTerms)
    => result_preview = Format(Sqrt(Sqrt(term[3].value)))

\* ------------------------------------------------------------ negative roots

\* Squares, so that the root of a literal is exact.
Squares ==
  {Num(<<"1">>, 1, 1), Num(<<"4">>, 4, 1), Num(<<"9">>, 9, 1), Num(<<"1", "6">>, 16, 1),
   Num(<<"2", "5">>, 25, 1), Num(<<"0", ".", "2", "5">>, 1, 4), Num(<<"2", ".", "2", "5">>, 9, 4)}

RootLiterals == Squares \cup {Num(<<"2">>, 2, 1), Num(<<"6">>, 6, 1)}

\* R(-a), and R(a-b) with a below b.
NegativeRootTerms ==
  {<<Sym(<<RootCh, "(">>), Op("-"), a, Sym(<<")">>)>> : a \in Squares}
    \cup {<<Sym(<<RootCh, "(">>), t[1], Op("-"), t[2], Sym(<<")">>)>> :
            t \in {u \in RootLiterals \X RootLiterals : FIsNeg(FSub(u[1].value, u[2].value))}}

InitNegativeRoot == \E t \in NegativeRootTerms : Construct(t)

SpecNegativeRoot == InitNegativeRoot /\ [][Next]_vars

\* C5: a square root whose argument has a negative value, written as a
\* negative literal or computed, returns "Invalid sqrt input".
C5_NegativeRoot ==
  (Evaluated /\ term \in NegativeRootTerms) => result_preview = InvalidSqrtInput

\* ------------------------------------------------------------ division by zero

Dividends == {Num(<<"5">>, 5, 1), Num(<<"2", ".", "5">>, 5, 2)}

Zeros ==
  {Num(<<"0">>, 0, 1), Num(<<"0", ".", "0">>, 0, 1), Pct(<<"0">>, 0, 1), Pct(<<"0", ".", "0">>, 0, 1)}

\* What may stand before the dividend and after the zero.
Before == {<<>>} \cup {<<a, o>> : a \in Dividends, o \in Operators}

After == {<<>>, <<Op("+"), Num(<<"1">>, 1, 1)>>}

\* ... a D 0 ...
Quotients ==
  {b \o <<a, Op(DivCh), z>> \o f : b \in Before, a \in Dividends, z \in Zeros, f \in After}

\* At top level, inside a parenthesised group, inside a root argument.
DivideByZeroTerms ==
  Quotients
    \cup {<<Sym(<<"(">>)>> \o q \o <<Sym(<<")">>)>> : q \in Quotients}
    \cup {<<Sym(<<RootCh, "(">>)>> \o q \o <<Sym(<<")">>)>> : q \in Quotients}

InitDivideByZero == \E t \in DivideByZeroTerms : Construct(t)

SpecDivideByZero == InitDivideByZero /\ [][Next]_vars

\* C6: dividing a set accumulator by a zero-valued number or percentage token,
\* at top level, inside a parenthesised group or inside a root argument,
\* returns "Cannot divide by 0".
C6_DivideByZero ==
  (Evaluated /\ term \in DivideByZeroTerms) => result_preview = CannotDivideBy0

\* "5D0%" at top level, "(5D0)" and "R(5D0)" have returned "Cannot divide by 0".
C6_Witness ==
  /\ Evaluated
  /\ current_input \in {<<"5", DivCh, "0", "%">>, <<"(", "5", DivCh, "0", ")">>,
                        <<RootCh, "(", "5", DivCh, "0", ")">>}
  /\ result_preview = CannotDivideBy0

\* ------------------------------------------------------------ any input

Pieces ==
  {Sym(<<RootCh>>), Sym(<<"(">>), Sym(<<")">>), Sym(<<"^">>), Sym(<<"%">>),
   Sym(<<"1">>), Sym(<<"0">>), Op("+"), Op("-"), Op(DivCh)}

\* The most pieces of a generated input.
MaxPieces == 3

\* The sequences of 1 to k pieces.
RECURSIVE Strings(_)
Strings(k) ==
  IF k = 1 THEN {<<p>> : p \in Pieces}
  ELSE LET shorter == Strings(k - 1)
       IN shorter \cup {t \o <<p>> : t \in {u \in shorter : Len(u) = k - 1}, p \in Pieces}

AnyExamples ==
  {<<Op("+"), Sym(<<"1">>), Sym(<<"0">>), Sym(<<"%">>)>>,
   <<Sym(<<"1">>), Op("+"), Sym(<<"(">>), Sym(<<")">>)>>}

AnyTerms == Strings(MaxPieces) \cup AnyExamples

InitAny == \E t \in AnyTerms : Construct(t)

SpecAny == InitAny /\ [][Next]_vars

\* C7: for an input of at most 100 characters with as many "(" as ")" every
\* rewrite loop terminates, each iteration of the root loop and of the
\* parenthesis loop leaving fewer of its markers in the buffer, and the call
\* returns.
C7_Terminates ==
  [][/\ pc' # "hang"
     /\ (pc = "roots" /\ pc' = "roots") => Count(RootCh, expr') < Count(RootCh, expr)
     /\ (pc = "parens" /\ pc' = "parens") => Count("(", expr') < Count("(", expr)]_vars

IsDigits(s) == s # <<>> /\ \A i \in 1..Len(s) : IsDigit(s[i])

\* digits, or digits.digits not ending in 0
IsPlain(s) ==
  IF Has(".", s)
  THEN /\ IsDigits(SubSeq(s, 1, IndexFrom(".", s, 1) - 1))
       /\ IsDigits(SubSeq(s, IndexFrom(".", s, 1) + 1, Len(s)))
       /\ s[Len(s)] # "0"
  ELSE IsDigits(s)

\* d.dddddddde+dd or d.dddddddde-dd
IsScientific(s) ==
  /\ Len(s) >= 14
  /\ IsDigit(s[1]) /\ s[2] = "." /\ IsDigits(SubSeq(s, 3, 10))
  /\ s[11] = "e" /\ s[12] \in {"+", "-"} /\ IsDigits(SubSeq(s, 13, Len(s)))

Unsigned(s) == IF s # <<>> /\ s[1] = "-" THEN Tail(s) ELSE s

IsFormattedNumber(s) == IsPlain(Unsigned(s)) \/ IsScientific(Unsigned(s))

Core(kind, text) == [kind |-> kind, text |-> text, value |-> None]

Cores ==
  {Core("ok", <<"1", "+", "2">>),
   Core("ok", <<"1", ".", "2", "+", "3">>),
   Core("ok", <<"(", "1", "+", "2", ")">>),
   Core("unbalanced", <<"(", "1", "+", "2">>),
   Core("unbalanced", <<"1", "+", "2", ")">>),
   Core("malformed", <<"1", ".", "2", ".", "3">>),
   Core("malformed", <<"(", "1", ".", "2", ".", "3", ")">>),
   Core("both", <<"(", "1", ".", "2", ".", "3">>),
   Core("both", <<"1", ".", "2", ".", "3", ")">>)}

\* How far beyond the longest accepted input the generated inputs go.
Overshoot == 1

\* Every core as it is and behind zeros, at lengths around the longest
\* accepted one.
ValidationTerms ==
  {<<c>> : c \in Cores}
    \cup {<<Sym(Repeat("0", n - Len(c.text))), c>> :
            c \in Cores, n \in (MaxInputLen - 2)..(MaxInputLen + Overshoot)}

InitValidation == \E t \in ValidationTerms : Construct(t)

SpecValidation == InitValidation /\ [][Next]_vars

\* C9: an input longer than 100 characters returns "Input too long" whatever
\* else is wrong with it; otherwise one whose counts of "(" and ")" differ
\* returns "Unbalanced parentheses" even with a malformed number in it;
\* otherwise one with a literal digits.digits. returns "Invalid number"; an
\* input of exactly 100 characters passes the length check.
C9_ValidationOrder ==
  (Evaluated /\ term \in ValidationTerms)
    => IF Len(current_input) > 100 THEN result_preview = InputTooLong
       ELSE IF term[Len(term)].kind \in {"unbalanced", "both"}
       THEN result_preview = UnbalancedParentheses
       ELSE IF term[Len(term)].kind = "malformed" THEN result_preview = InvalidNumber
       ELSE result_preview \notin {InputTooLong, UnbalancedParentheses, InvalidNumber}

\* An input of 101 characters, unbalanced and with a malformed number, has
\* returned "Input too long".
C9_Witness ==
  /\ Evaluated
  /\ Len(current_input) = 101
  /\ term[Len(term)].kind = "both"
  /\ result_preview = InputTooLong

\* ------------------------------------------------------------ re-evaluation

ScaleLiterals ==
  {Num(<<"2">>, 2, 1), Num(<<"5">>, 5, 1), Num(<<"0", ".", "5">>, 1, 2),
   Num(<<"1", "0", "0", "0", "0">>, 10000, 1), Num(<<"4", "0", "0", "0", "0">>, 40000, 1)}

\* A literal, and two literals around one operator.
ScaleTerms == Chains(ScaleLiterals, 1)

InitScale == \E t \in ScaleTerms : Construct(t)

SpecScale == InitScale /\ [][Next]_vars

\* C10: when an evaluation succeeds with the formatted result r, negative
\* results and results in scientific notation included,
\* evaluate_expression(r) returns r.
C10_Idempotent ==
  (Evaluated /\ term \in ScaleTerms /\ result_preview \notin ErrorStrings)
    => evaluate_expression(result_preview) = Returned(result_preview)

\* ------------------------------------------------------------ history records

\* Expressions that return numbers, with and without rewriting, and
\* expressions that return each kind of error.
RecordTerms ==
  {<<Num(<<"2">>, 2, 1), Op("+"), Num(<<"3">>, 3, 1)>>,
   <<Sym(<<RootCh, "(">>), Num(<<"4">>, 4, 1), Sym(<<")">>)>>,
   <<Sym(<<"(">>), Num(<<"2">>, 2, 1), Op("+"), Num(<<"3">>, 3, 1), Sym(<<")">>),
     Op(TimesCh), Num(<<"4">>, 4, 1)>>,
   <<Num(<<"5">>, 5, 1), Op(DivCh), Num(<<"0">>, 0, 1)>>,
   <<Sym(<<"(">>), Num(<<"1">>, 1, 1)>>,
   <<Op("+")>>,
   <<Sym(<<RootCh, "(">>), Num(<<"2">>, 2, 1), Op("-"), Num(<<"6">>, 6, 1), Sym(<<")">>)>>}

Copy == \E t \in RecordTerms : CopyTerm(t)

InitRecords == \E t \in RecordTerms : Construct(t)

NextRecords ==
  Paste \/ ClickEquals \/ RootStep \/ ParenStep \/ FinalStep \/ ClickAC \/ Copy

SpecRecords == InitRecords /\ [][NextRecords]_vars

\* C11: a call of evaluate_expression that returns a formatted number puts
\* one record, of the expression as it was entered and the formatted result,
\* before the records there were, which stay as they were; every other step,
\* a call that returns an error string included, leaves history_list as it
\* was.
C11_HistoryRecord ==
  [][IF pc = "final" /\ pc' = "idle" /\ result_preview' \notin ErrorStrings
     THEN history_list' = <<HistoryItem(current_input, result_preview')>> \o history_list
     ELSE history_list' = history_list]_vars

\* Two records, the newer one of "R(4)" and "2" before an older one of
\* another expression.
C11_Witness ==
  /\ Evaluated
  /\ Len(history_list) = 2
  /\ history_list[1] = HistoryItem(<<RootCh, "(", "4", ")">>, <<"2">>)
  /\ history_list[2].expression # history_list[1].expression

\* ------------------------------------------------------------ the 1e8 threshold

ThresholdLiterals ==
  {Num(<<"9", "9", "9", "9", "9", "9", "9", "9">>, 99999999, 1),
   Num(<<"1", "0", "0", "0", "0", "0", "0", "0", "0">>, 100000000, 1),
   Num(<<"1", "0", "0", "0", "0", "0", "0", "0", "1">>, 100000001, 1),
   Num(<<"1", "2", "3", "4", "5", "6", "7", "8", "9">>, 123456789, 1),
   Num(<<"9", "9", "9", "9", "9", "9", "9", "8">>, 99999998, 1),
   Num(<<"1", "0", "0", "0", "0">>, 10000, 1),
   Num(<<"1">>, 1, 1),
   Num(<<"2">>, 2, 1)}

\* Whole numbers on both sides of 1e8, below 1e9 in magnitude: a literal, a
\* sum, a difference, and 10000 X 10000.
ThresholdTerms ==
  {<<a>> : a \in ThresholdLiterals}
    \cup {<<a, o, b>> : a \in ThresholdLiterals, o \in {Op("+"), Op("-")}, b \in ThresholdLiterals}
    \cup {<<Num(<<"1", "0", "0", "0", "0">>, 10000, 1), Op(TimesCh), Num(<<"1", "0", "0", "0", "0">>, 10000, 1)>>}

InitThreshold == \E t \in ThresholdTerms : Construct(t)

SpecThreshold == InitThreshold /\ [][Next]_vars

\* The nine digits of n as d.dddddddde+08.
NineDigitsE8(n) == <<NatStr(n)[1], ".">> \o SubSeq(NatStr(n), 2, 9) \o <<"e", "+", "0", "8">>

\* C12: a whole-number result of magnitude 100000000 or more, exactly
\* 100000000 included, is formatted in scientific notation with 8 digits
\* after the point, and one of magnitude below 100000000 as a plain integer.
C12_Threshold ==
  (Evaluated /\ term \in ThresholdTerms)
    => LET v == LeftToRight(term).val
       IN result_preview =
            (IF v.neg /\ v.n > 0 THEN <<"-">> ELSE <<>>)
              \o (IF v.n >= 100000000 THEN NineDigitsE8(v.n) ELSE NatStr(v.n))

\* "10000X10000" has returned "1.00000000e+08".
C12_Witness ==
  /\ Evaluated
  /\ current_input = <<"1", "0", "0", "0", "0", TimesCh, "1", "0", "0", "0", "0">>
  /\ result_preview = <<"1", ".", "0", "0", "0", "0", "0", "0", "0", "0", "e", "+", "0", "8">>

\* ------------------------------------------------------------ malformed groups

\* "()", "1+()", ")(", "(+)", "(-)", "(D)"
MalformedGroups ==
  {<<"(", ")">>, <<"1", "+", "(", ")">>, <<")", "(">>,
   <<"(", "+", ")">>, <<"(", "-", ")">>, <<"(", DivCh, ")">>}

\* C13: an expression with as many "(" as ")" whose parenthesised span is
\* empty or malformed makes evaluate_expression return "Error".
C13_MalformedGroup ==
  current_input \in MalformedGroups
    => /\ pc # "hang"
       /\ Evaluated => result_preview = Error

\* ------------------------------------------------------------ negative exponents

ExponentBases ==
  {Num(<<"0">>, 0, 1), Num(<<"2">>, 2, 1), Num(<<"4">>, 4, 1), Num(<<"5">>, 5, 1),
   Num(<<"1", "0">>, 10, 1)}

SmallNumbers == {Num(<<"1">>, 1, 1), Num(<<"2">>, 2, 1), Num(<<"3">>, 3, 1)}

\* b^-e, and b^(a-c) with a below c.
NegativeExponentTerms ==
  {<<b, Sym(<<"^">>), Op("-"), e>> : b \in ExponentBases, e \in SmallNumbers}
    \cup {<<b, Sym(<<"^">>), Sym(<<"(">>), t[1], Op("-"), t[2], Sym(<<")">>)>> :
            b \in ExponentBases,
            t \in {u \in SmallNumbers \X SmallNumbers : FIsNeg(FSub(u[1].value, u[2].value))}}

InitNegativeExponent == \E t \in NegativeExponentTerms : Construct(t)

SpecNegativeExponent == InitNegativeExponent /\ [][Next]_vars

\* The magnitude of the exponent of a term b^-e or b^(a-c).
ExponentMagnitude(t) ==
  IF Len(t) = 4 THEN t[4].value ELSE FSub(t[6].value, t[4].value)

\* C14: a pattern with a negative exponent, written as b^-e or produced from
\* b^(a-c), is replaced by b raised to that exponent and the exponent loop
\* ends; a zero base with a negative exponent ends the call with an error
\* outcome.
C14_NegativeExponent ==
  term \in NegativeExponentTerms
    => /\ pc # "hang"
       /\ Evaluated =>
            IF FIsZero(term[1].value) THEN result_preview \in ErrorStrings
            ELSE result_preview =
                   Format(FDiv(FInt(1), FPow(term[1].value, ExponentMagnitude(term))))

\* ------------------------------------------------------------ complete elimination

\* C15: whenever the root loop completes the buffer holds no root sign,
\* whenever the parenthesis loop completes it holds no "(" and no ")", and
\* whenever the exponent loop completes it holds no exponent marker.
C15_CompleteElimination ==
  /\ pc \in {"parens", "final"} => ~Has(RootCh, expr)
  /\ pc = "final" => ~Has("(", expr) /\ ~Has(")", expr)
  /\ pc = "final" =>
       LET loop == ExponentLoop(SqrtCallSub(ReplaceSymbols(expr), 1))
       IN ~loop.hang => ~HasSub(<<"*", "*">>, loop.expr)

\* ------------------------------------------------------------ operator runs

RunLiterals == {Num(<<"2">>, 2, 1), Num(<<"3">>, 3, 1), Num(<<"5">>, 5, 1)}

\* One operator or two in a row.  X X is left out: line 179 makes "**" of it,
\* which is the exponent marker and no pair of operator tokens.
Runs ==
  {<<o>> : o \in Operators}
    \cup ({<<o, p>> : o \in Operators, p \in Operators} \ {<<Op(TimesCh), Op(TimesCh)>>})

\* Nothing or one operator before the first number; nothing, or a space and
\* one more number, after the second.
Leads == {<<>>} \cup {<<o>> : o \in Operators}

Trails == {<<>>} \cup {<<Sym(<<" ">>), c>> : c \in RunLiterals}

OperatorRunTerms ==
  {l \o <<a>> \o r \o <<b>> \o f :
     l \in Leads, a \in RunLiterals, r \in Runs, b \in RunLiterals, f \in Trails}

InitOperatorRun == \E t \in OperatorRunTerms : Construct(t)

SpecOperatorRun == InitOperatorRun /\ [][Next]_vars

\* The value of the items of t from index i on, acc being the accumulator
\* (None while unset) and pending the last operator passed: an operator only
\* becomes the pending one, the first number becomes the accumulator, every
\* later number is combined by the pending operator.
RECURSIVE PendingFold(_, _, _, _)
PendingFold(t, i, acc, pending) ==
  IF i > Len(t) THEN acc
  ELSE IF t[i].kind = "op" THEN PendingFold(t, i + 1, acc, t[i].text[1])
  ELSE IF t[i].kind = "num"
  THEN PendingFold(t, i + 1,
                   IF IsNone(acc) THEN t[i].value ELSE Arith(acc, pending, t[i].value),
                   pending)
  ELSE PendingFold(t, i + 1, acc, pending)

\* C16: an operator token only replaces the pending operator; of operators
\* in a row only the last is applied, an operator before the first number is
\* discarded, and the pending operator stays set after it has been applied.
C16_PendingOperator ==
  (Evaluated /\ term \in OperatorRunTerms)
    => result_preview = Format(PendingFold(term, 1, None, ""))

\* "2X-3" has returned "-1", as 2 - 3.
C16_Witness ==
  /\ Evaluated
  /\ current_input = <<"2", TimesCh, "-", "3">>
  /\ result_preview = <<"-", "1">>

\* ------------------------------------------------------------ groups

\* (b o c), with a quotient only where it is a short decimal.
Groups ==
  {<<Sym(<<"(">>), b, o, c, Sym(<<")">>)>> : b \in RunLiterals, o \in Operators, c \in RunLiterals}
    \ {<<Sym(<<"(">>), b, Op(DivCh), Num(<<"3">>, 3, 1), Sym(<<")">>)>> :
          b \in {Num(<<"2">>, 2, 1), Num(<<"5">>, 5, 1)}}

\* A group alone, after a number and an operator, before an operator and a
\* number.
GroupTerms ==
  Groups
    \cup {<<a, o>> \o g : a \in RunLiterals, o \in Operators, g \in Groups}
    \cup {g \o <<o, a>> : a \in RunLiterals, o \in Operators, g \in Groups}

InitGroup == \E t \in GroupTerms : Construct(t)

SpecGroup == InitGroup /\ [][Next]_vars

\* The linear value of the group whose "(" is item i of t.
GroupValue(t, i) == Arith(t[i + 1].value, t[i + 2].text[1], t[i + 3].value)

\* The term t with its group as one number: [ok, val], ok false where it
\* divides by zero.
GroupAsNumber(t) ==
  IF Len(t) = 5 THEN [ok |-> TRUE, val |-> GroupValue(t, 1)]
  ELSE IF t[1].kind = "sym"
  THEN [ok |-> TRUE, val |-> Arith(GroupValue(t, 1), t[6].text[1], t[7].value)]
  ELSE IF t[2].text[1] = DivCh /\ FIsZero(GroupValue(t, 3)) THEN [ok |-> FALSE, val |-> None]
  ELSE [ok |-> TRUE, val |-> Arith(t[1].value, t[2].text[1], GroupValue(t, 3))]

\* C17: the result of an expression with a parenthesised group is the
\* left-to-right reduction in which the group counts as one number, the
\* linear value of its contents, a negative value included.
C17_GroupValue ==
  (Evaluated /\ term \in GroupTerms /\ GroupAsNumber(term).ok)
    => result_preview = Format(GroupAsNumber(term).val)

\* ------------------------------------------------------------ the cursor

\* The characters typed, the labels clicked and the text pasted in an editing
\* run.
EditChars == {"7"}
EditLabels == {<<"7">>}
EditTerm == <<Num(<<"7">>, 7, 1)>>

InitEdit == Construct(EditTerm)

\* The cursor is inside the input.
Inside == 0 <= cursor_pos /\ cursor_pos <= Len(current_input)

\* The editing operations: keys, buttons, the mouse in the display and the
\* records of the history panel. A run is followed up to its first state with
\* the cursor outside the input (from there on the cursor can grow without
\* bound), "=" is clicked until the history has a record, and the panel is
\* opened once it has one.
NextEdit ==
  \/ Inside /\ \E ch \in EditChars : TypeChar(ch)
  \/ Inside /\ PasteKey
  \/ Inside /\ Backspace
  \/ Inside /\ \E shift \in BOOLEAN : ArrowLeft(shift)
  \/ Inside /\ \E shift \in BOOLEAN : ArrowRight(shift)
  \/ Inside /\ ClickAC
  \/ Inside /\ ClickCE
  \/ Inside /\ ClickRoot
  \/ Inside /\ \E label \in EditLabels : ClickLabel(label)
  \/ Inside /\ history_list = <<>> /\ ClickEquals
  \/ RootStep
  \/ ParenStep
  \/ FinalStep
  \/ Inside /\ \E row \in ClickRows : \E char_idx \in CharIdx(row) : MouseClick(row, char_idx)
  \/ Inside /\ \E row \in DragRows : \E char_idx \in CharIdx(row) : MouseDrag(row, char_idx)
  \/ Inside /\ MouseUp
  \/ Inside /\ history_list # <<>> /\ ShowHistory
  \/ Inside /\ \E i \in 1..Len(history_list) : SelectHistoryItem(i)

SpecEdit == InitEdit /\ [][NextEdit]_vars

\* C18: after any sequence of editing operations the cursor is inside the
\* input: 0 <= cursor_pos <= len(current_input).
C18_CursorInside == 0 <= cursor_pos /\ cursor_pos <= Len(current_input)

\* ------------------------------------------------------------ the panel animation

InitPanel == Construct(<<>>)

\* The calls of show_history and hide_history, the frames, and the keys typed
\* meanwhile (KEYDOWN is handled whatever the panel does).
NextPanel ==
  \/ ShowHistory
  \/ HideHistory
  \/ Tick
  \/ \E ch \in EditChars : TypeChar(ch)

SpecPanel == InitPanel /\ [][NextPanel]_vars

\* run calls update_history_animation in every frame (line 756), so a moving
\* panel is not left without a tick forever.
SpecPanelFair == SpecPanel /\ WF_vars(Tick)

\* The panel has settled shown, and has settled hidden.
SettledShown == history_view_offset = 0 /\ showing_history /\ history_animation = 0
SettledHidden == history_view_offset = WIDTH /\ ~showing_history /\ history_animation = 0

\* C19: history_view_offset is in 0..WIDTH in every state; after show_history
\* the ticks reach offset 0 with showing_history true and history_animation
\* 0 unless hide_history is called, after hide_history they reach offset
\* WIDTH with showing_history false and history_animation 0 unless
\* show_history is called; and while history_animation is 0 a tick changes
\* nothing of the panel.
C19_AnimationSettles ==
  /\ [](history_view_offset \in 0..WIDTH)
  /\ (history_animation = 1) ~> (SettledShown \/ history_animation = 0 - 1)
  /\ (history_animation = 0 - 1) ~> (SettledHidden \/ history_animation = 1)
  /\ [][(history_animation = 0 /\ history_animation' = 0) => UNCHANGED panel]_vars

\* The panel has been opened and has settled, with keys typed meanwhile.
C19_Witness == SettledShown /\ current_input # <<>>

====
